---- MODULE Spec2Model ----
(***************************************************************************)
(* Model of the lex-ai contract pipeline: the upload, analyze and results  *)
(* Lambda handlers working on one DynamoDB table and one S3 bucket.        *)
(* Every awaited call to a collaborator (S3, DynamoDB, Bedrock) is one     *)
(* atomic step of the invocation that issues it; invocations interleave    *)
(* between these steps.                                                    *)
(***************************************************************************)
EXTENDS Integers, Sequences, FiniteSets, TLC

(* ---------------------------- bounds ----------------------------------- *)
MaxUploads == 2          \* upload invocations in one behaviour
MaxTime == 1             \* largest value of the wall clock
MaxQueries == 1          \* results invocations in one behaviour
MaxRuns == 2             \* calls of uploadAndAnalyze in one behaviour

Analyzers == {"a1", "a2"}   \* analyze invocations (they may run in parallel)
Before(q, p) == q = "a1" /\ p = "a2"
Ids == 1..MaxUploads        \* the UUIDs randomUUID can hand out
Times == 0..MaxTime

(* ------------------------- request inputs ------------------------------ *)
Missing == "undefined"

PDF == "application/pdf"
DOCX == "application/vnd.openxmlformats-officedocument.wordprocessingml.document"
TXT == "text/plain"
PNG == "image/png"

\* file_data of an upload body: absent, a JSON number, or a string whose
\* characters are base64 characters ("A") or not ("!").  doc tells whether
\* the bytes are a document the extractor of its format can read (a DOCX
\* archive, a PDF with 100 characters of text).
NoFileData == [kind |-> "missing", chars |-> <<>>, doc |-> FALSE]
NumberData == [kind |-> "number", chars |-> <<>>, doc |-> FALSE]
EmptyData == [kind |-> "string", chars |-> <<>>, doc |-> FALSE]
NotBase64 == [kind |-> "string", chars |-> <<"!", "!">>, doc |-> FALSE]
Document == [kind |-> "string", chars |-> <<"A", "A", "A", "A">>, doc |-> TRUE]
Garbage == [kind |-> "string", chars |-> <<"A", "A", "A", "A">>, doc |-> FALSE]

\* filename of an upload body, as its characters; <<Missing>> is no filename
Request(filename, file_data, content_type) ==
  [filename |-> filename, file_data |-> file_data, content_type |-> content_type]

UploadRequests ==
  { Request(<<"c", ".", "P">>, NoFileData, PDF),
    Request(<<"c", ".", "P">>, EmptyData, PDF),
    Request(<<"c", ".", "P">>, NumberData, PDF),
    Request(<<"c", ".", "P">>, NotBase64, PDF),
    Request(<<"c", ".", "P">>, Document, Missing),
    Request(<<"c">>, Garbage, DOCX),
    Request(<<"c", ".">>, Document, TXT),
    Request(<<"c", ".", "P">>, Document, PNG),
    Request(<<Missing>>, Document, PDF) }

(* ----------------------- analysis values ------------------------------- *)
\* A decoded JSON object, reduced to what the AnalysisResult shape looks at:
\* which of the members are present, the risk_score and the severity of
\* every entry of risks.  "rest" stands for the members overall_summary,
\* key_terms (four slots), missing_clauses, recommendations and red_flags.
Members == {"risk_score", "risks", "rest"}

EmptyObject == [present |-> {}, risk_score |-> 0, severities |-> <<>>]

\* part_002:325-355
getFallbackAnalysis ==
  [present |-> Members, risk_score |-> 5, severities |-> <<3>>]

\* interface ContractAnalysis (part_002:22-40) with the ranges the prompt
\* asks for (part_002:259, 270)
SchemaValid(a) ==
  /\ a.present = Members
  /\ a.risk_score \in 1..10
  /\ \A i \in 1..Len(a.severities) : a.severities[i] \in 1..10


(* ------------------- the model's answer and its parsing ---------------- *)
\* The text of a model answer is a sequence of tokens: braces, prose ("x")
\* and whole JSON members.
MemberTokens == {"rs3", "rs7", "rs11", "sv4", "sv0", "rest"}

\* one member added to a decoded object (a repeated member overrides)
WithMember(o, tok) ==
  CASE tok = "rs3"  -> [o EXCEPT !.present = @ \cup {"risk_score"}, !.risk_score = 3]
    [] tok = "rs7"  -> [o EXCEPT !.present = @ \cup {"risk_score"}, !.risk_score = 7]
    [] tok = "rs11" -> [o EXCEPT !.present = @ \cup {"risk_score"}, !.risk_score = 11]
    [] tok = "sv4"  -> [o EXCEPT !.present = @ \cup {"risks"}, !.severities = <<4>>]
    [] tok = "sv0"  -> [o EXCEPT !.present = @ \cup {"risks"}, !.severities = <<0>>]
    [] tok = "rest" -> [o EXCEPT !.present = @ \cup {"rest"}]

RECURSIVE ObjectOf(_)
ObjectOf(toks) ==
  IF toks = <<>> THEN EmptyObject
  ELSE WithMember(ObjectOf(SubSeq(toks, 1, Len(toks) - 1)), toks[Len(toks)])

\* JSON.parse of a text that begins with "{": it decodes when the text is one
\* object, an opening brace, members and the closing brace; <<>> is a
\* SyntaxError, <<o>> the decoded object o.
JSONparse(s) ==
  IF /\ Len(s) >= 2
     /\ s[1] = "{"
     /\ s[Len(s)] = "}"
     /\ \A i \in 2..(Len(s) - 1) : s[i] \in MemberTokens
  THEN << ObjectOf(SubSeq(s, 2, Len(s) - 1)) >>
  ELSE <<>>

\* aiResponse.match(/\{[\s\S]*\}/): the greedy match runs from the first
\* opening brace to the last closing brace after it; <<>> is no match.
jsonMatch(text) ==
  LET opens == { i \in 1..Len(text) : text[i] = "{" }
  IN IF opens = {} THEN <<>>
     ELSE LET first == CHOOSE i \in opens : \A j \in opens : i <= j
              closes == { i \in first..Len(text) : text[i] = "}" }
          IN IF closes = {} THEN <<>>
             ELSE LET last == CHOOSE i \in closes : \A j \in closes : j <= i
                  IN << SubSeq(text, first, last) >>

\* What the Bedrock call does: it throws (timeout, transport error, a body
\* that is not the expected JSON), or it answers with a text.
ModelTexts ==
  { <<"x", "x">>,
    <<"{", "rs7", "sv4", "rest", "}">>,
    <<"x", "{", "rs7", "sv4", "rest", "}", "x">>,
    <<"{", "rs11", "sv4", "rest", "}">>,
    <<"{", "}">>,
    <<"{", "rs7", "x", "}">>,
    <<"{", "rs7", "sv4", "rest", "}", "x", "{", "}">> }

ModelOutcomes ==
  { [kind |-> "throws", text |-> <<>>] }
  \cup { [kind |-> "text", text |-> t] : t \in ModelTexts }

\* an analysis step that answers a failure with an empty object
analyzeContractWithAIEmptyOnFailure(outcome) ==
  IF outcome.kind = "throws" THEN EmptyObject
  ELSE LET m == jsonMatch(outcome.text)
       IN IF m = <<>> THEN EmptyObject
          ELSE LET analysisJson == JSONparse(m[1])
               IN IF analysisJson = <<>> THEN EmptyObject
                  ELSE analysisJson[1]

\* part_002:289-322, the value analyzeContractWithAI resolves to
analyzeContractWithAI(outcome) ==
  IF outcome.kind = "throws" THEN getFallbackAnalysis
  ELSE LET m == jsonMatch(outcome.text)
       IN IF m = <<>> THEN getFallbackAnalysis
          ELSE LET analysisJson == JSONparse(m[1])
               IN IF analysisJson = <<>> THEN getFallbackAnalysis
                  ELSE analysisJson[1]

(* --------------------------- text extraction --------------------------- *)
\* part_002:168-246.  The result is one of: the text found in the document,
\* the sample service agreement of the PDF branch, the sample contract of
\* the catch block.  The function never throws.
extractTextFromFile(fileContent, contentType) ==
  CASE contentType = PDF ->
         IF fileContent.doc THEN "extracted" ELSE "sample agreement"
    [] contentType = DOCX ->
         IF fileContent.doc THEN "extracted" ELSE "sample contract"
    [] contentType = TXT -> "extracted"
    [] OTHER -> "sample contract"

(* ------------------------------ upload helpers ------------------------- *)
\* Buffer.from(file_data, 'base64') of a string: characters outside the
\* base64 alphabet are skipped, four characters give three bytes; the result
\* is the number of bytes.
Base64Chars == {"A"}

RECURSIVE CountValid(_)
CountValid(chars) ==
  IF chars = <<>> THEN 0
  ELSE (IF Head(chars) \in Base64Chars THEN 1 ELSE 0) + CountValid(Tail(chars))

BufferFromBase64(chars) == (3 * CountValid(chars)) \div 4

toLowerCase(c) == IF c = "P" THEN "p" ELSE c

\* filename.split('.').pop()?.toLowerCase() || 'pdf'  (part_002:420)
fileExtension(filename) ==
  LET dots == { i \in 1..Len(filename) : filename[i] = "." }
      from == IF dots = {} THEN 1
              ELSE 1 + CHOOSE i \in dots : \A j \in dots : j <= i
      ext == [ i \in 1..(Len(filename) - from + 1) |->
                 toLowerCase(filename[from + i - 1]) ]
  IN IF ext = <<>> THEN <<"p", "d", "f">> ELSE ext

\* a key built from the extension alone: `contracts/contract.${fileExtension}`
s3KeyOfExtension(contractId, filename) ==
  [id |-> contractId - contractId, ext |-> fileExtension(filename)]

\* `contracts/${contractId}/${contractId}.${fileExtension}`  (part_002:421)
s3KeyOf(contractId, filename) ==
  [id |-> contractId, ext |-> fileExtension(filename)]

(* ------------------------------- state --------------------------------- *)
VARIABLES
  table,    \* the DynamoDB table: contract_id -> item
  bucket,   \* the S3 bucket: key -> object body
  now,      \* the wall clock read by new Date()
  uuids,    \* how many UUIDs randomUUID has handed out
  upl,      \* the upload invocation in progress (uploads run one at a time)
  anl,      \* the analyze invocations
  qry,      \* the results invocation that returned last: request and response
  calc,     \* a function of the analyze handler applied on its own: argument and result
  home      \* the front-end page: its React state and the place of uploadAndAnalyze
\* Besides the handler's locals, an invocation records which of its store
\* operations failed (failed) and, for analyze, whether another analyze of the
\* same id was under way when it began (parallel).

vars == << table, bucket, now, uuids, upl, anl, qry, calc, home >>

NoResponse == [statusCode |-> 0, contract_id |-> 0, status |-> "", analysis |-> <<>>]

\* part_002:357-368 and 494-505; the body reduced to the members read here
createResponse(statusCode, contract_id, status, analysis) ==
  [statusCode |-> statusCode, contract_id |-> contract_id,
   status |-> status, analysis |-> analysis]

errorResponse(statusCode) == createResponse(statusCode, 0, "", <<>>)

NoRequest ==
  Request(<<>>, NoFileData, Missing)

NoKey == [id |-> 0, ext |-> <<>>]

UplIdle ==
  [pc |-> "idle", calls |-> 0, req |-> NoRequest, contractId |-> 0,
   s3Key |-> NoKey, failed |-> {}, resp |-> NoResponse]

AnlIdle ==
  [pc |-> "idle", contract_id |-> 0, contract |-> <<>>, contractText |-> "",
   analysis |-> <<>>, timestamp |-> <<>>, failed |-> {}, parallel |-> FALSE,
   resp |-> NoResponse]

\* the body of a results response: the members of the single-contract
\* answers (contract) and of the listing (contracts, summary, pagination);
\* a member that is not in the body is <<>>, or 0 and FALSE in the listing
View(contract_id, status, filename, created_at, analyzed_at, analysis) ==
  [contract_id |-> contract_id, status |-> status, filename |-> filename,
   created_at |-> created_at, analyzed_at |-> analyzed_at, analysis |-> analysis]

NoSummary == [total |-> 0, completed |-> 0, analyzing |-> 0, uploaded |-> 0]

NoPagination == [limit |-> 0, has_more |-> FALSE]

\* no results invocation has returned.  A results invocation is one step (it
\* awaits one store call); qry keeps how many there have been (calls), the
\* request of the last one (contract_id or limit and statusFilter), the Limit
\* it gave the Scan, and its response.
NoQuery ==
  [op |-> "none", calls |-> 0, contract_id |-> 0, limit |-> <<>>, statusFilter |-> Missing,
   Limit |-> 0, statusCode |-> 0, contract |-> <<>>, contracts |-> <<>>,
   summary |-> NoSummary, pagination |-> NoPagination]

\* A text, as the stretch of len characters that begins from characters into
\* the text named of (a result of the extraction, the sample agreement).
Text(of, len) == [of |-> of, from |-> 0, len |-> len]

\* no function has been applied on its own.  Otherwise calc has the function
\* (fn), its argument (pdf, outcome or contractText with filename), whether it
\* has been applied, and its result (extractedText, analysis or prompt).
NoCalc ==
  [fn |-> "none", applied |-> FALSE,
   pdf |-> [textMatches |-> 0, readableText |-> 0],
   outcome |-> [kind |-> "none", text |-> <<>>],
   contractText |-> Text("", 0), filename |-> <<>>,
   extractedText |-> <<>>, analysis |-> <<>>, prompt |-> <<>>]

\* what a render of the page shows of the two flags, the result and the error
Shown(s) ==
  [isUploading |-> s.isUploading, isAnalyzing |-> s.isAnalyzing,
   result |-> s.result # <<>>, error |-> s.error # <<>>]

\* The page as useState creates it (part_001:42-47), with no uploadAndAnalyze
\* called.  A state that can be null is <<>> or has one element.  Besides the
\* six states the page has the place of the uploadAndAnalyze call (pc), the
\* file and the contract_id that the call holds, and as history the number
\* of calls (runs), whether the upload request of the last call returned
\* success and its analyze request was sent and returned success, and every
\* combination of flags, result and error that a render has shown (seen).
useState ==
  [file |-> <<>>, isUploading |-> FALSE, isAnalyzing |-> FALSE, progress |-> 0,
   result |-> <<>>, error |-> <<>>,
   pc |-> "idle", closure |-> <<>>, contract_id |-> 0, runs |-> 0,
   uploadOk |-> FALSE, analyzeSent |-> FALSE, analyzeOk |-> FALSE]

NoHome == [state |-> useState, seen |-> { Shown(useState) }]

Init ==
  /\ table = <<>>
  /\ bucket = <<>>
  /\ now = 0
  /\ uuids = 0
  /\ upl = UplIdle
  /\ anl = [p \in Analyzers |-> AnlIdle]
  /\ qry = NoQuery
  /\ calc = NoCalc
  /\ home = NoHome

\* new Date(): the clock has stayed or moved on since it was last read
ClockReads == { t \in Times : now <= t /\ t <= now + 1 }

(* ------------------------------- store --------------------------------- *)
\* DynamoDB PutCommand
PutItem(t, item) == (item.contract_id :> item) @@ t

\* DynamoDB UpdateCommand 'SET #status = :status, updated_at = :timestamp'
\* (an update of a key that has no item creates the item)
BlankItem(id) ==
  [contract_id |-> id, filename |-> <<Missing>>, s3_key |-> NoKey,
   content_type |-> Missing, file_size |-> 0, status |-> Missing,
   created_at |-> <<>>, updated_at |-> <<>>, analyzed_at |-> <<>>,
   analysis |-> <<>>]

ItemOrBlank(t, id) == IF id \in DOMAIN t THEN t[id] ELSE BlankItem(id)

\* the status update that also removes the result of an earlier analysis
UpdateStatusDropsAnalysis(t, id, status, timestamp) ==
  (id :> [ItemOrBlank(t, id) EXCEPT !.status = status,
                                    !.updated_at = <<timestamp>>,
                                    !.analysis = <<>>,
                                    !.analyzed_at = <<>>]) @@ t

UpdateStatus(t, id, status, timestamp) ==
  (id :> [ItemOrBlank(t, id) EXCEPT !.status = status,
                                    !.updated_at = <<timestamp>>]) @@ t

\* DynamoDB UpdateCommand 'SET analysis = :analysis, #status = :status,
\* analyzed_at = :timestamp, updated_at = :timestamp'
\* the result update without 'analysis = :analysis'
UpdateAnalysisStatusOnly(t, id, analysis, status, timestamp) ==
  (id :> [ItemOrBlank(t, id) EXCEPT !.status = status,
                                    !.analyzed_at = <<timestamp>>,
                                    !.updated_at = <<timestamp>>]) @@ t

\* the result update applied only to an item that is still 'analyzing'
UpdateAnalysisIfAnalyzing(t, id, analysis, status, timestamp) ==
  IF ItemOrBlank(t, id).status = "analyzing"
  THEN (id :> [ItemOrBlank(t, id) EXCEPT !.analysis = <<analysis>>,
                                         !.status = status,
                                         !.analyzed_at = <<timestamp>>,
                                         !.updated_at = <<timestamp>>]) @@ t
  ELSE t

\* the result written as a whole new item that has the four attributes only
UpdateAnalysisReplacesItem(t, id, analysis, status, timestamp) ==
  (id :> [BlankItem(id) EXCEPT !.analysis = <<analysis>>,
                               !.status = status,
                               !.analyzed_at = <<timestamp>>,
                               !.updated_at = <<timestamp>>]) @@ t

UpdateAnalysis(t, id, analysis, status, timestamp) ==
  (id :> [ItemOrBlank(t, id) EXCEPT !.analysis = <<analysis>>,
                                    !.status = status,
                                    !.analyzed_at = <<timestamp>>,
                                    !.updated_at = <<timestamp>>]) @@ t

\* S3 PutObjectCommand and DeleteObjectCommand
PutObject(b, key, body) == (key :> body) @@ b
DeleteObject(b, key) == [k \in (DOMAIN b) \ {key} |-> b[k]]

(* ------------------------------ upload --------------------------------- *)
UploadReturns(response) ==
  upl' = [upl EXCEPT !.pc = "done", !.resp = response]

\* an id generator that hands out the id it handed out before
randomUUIDRepeats == IF uuids = 0 THEN uuids + 1 ELSE uuids

\* randomUUID() (part_002:408): a value never handed out before
randomUUID == uuids + 1

\* part_002:396-421: the body is read, the id generated, the file decoded
\* and the key built; nothing is stored yet.
UploadBegin(req) ==
  /\ upl.pc \in {"idle", "done"}
  /\ upl.calls < MaxUploads
  /\ LET content_type == IF req.content_type = Missing THEN PDF
                         ELSE req.content_type
         started == [UplIdle EXCEPT !.calls = upl.calls + 1,
                                    !.req = [req EXCEPT !.content_type = content_type]]
     IN IF req.file_data \in {NoFileData, EmptyData}
        THEN \* !file_data
             /\ upl' = [started EXCEPT !.pc = "done", !.resp = errorResponse(400)]
             /\ uuids' = uuids
        ELSE /\ uuids' = randomUUID
             /\ IF req.file_data.kind # "string"
                THEN \* Buffer.from throws a TypeError
                     upl' = [started EXCEPT !.pc = "done", !.contractId = uuids',
                                            !.resp = errorResponse(400)]
                ELSE IF req.filename = <<Missing>>
                THEN \* filename.split throws, caught at part_002:488
                     upl' = [started EXCEPT !.pc = "done", !.contractId = uuids',
                                            !.resp = errorResponse(500)]
                ELSE upl' = [started EXCEPT !.pc = "putObject", !.contractId = uuids',
                                            !.s3Key = s3KeyOf(uuids', req.filename)]
  /\ UNCHANGED << table, bucket, now, anl, qry, calc, home >>

fileBuffer == [size |-> BufferFromBase64(upl.req.file_data.chars),
               doc |-> upl.req.file_data.doc]

\* the failed upload is logged and the handler goes on to the record
PutObjectFailedIgnored ==
  /\ upl' = [upl EXCEPT !.pc = "putItem", !.failed = @ \cup {"putObject"}]
  /\ UNCHANGED bucket

\* part_002:439-442
PutObjectFailed ==
  /\ upl' = [upl EXCEPT !.pc = "done", !.resp = errorResponse(500),
                        !.failed = @ \cup {"putObject"}]
  /\ UNCHANGED bucket

\* part_002:423-442
UploadPutObject ==
  /\ upl.pc = "putObject"
  /\ \/ /\ bucket' = PutObject(bucket, upl.s3Key, fileBuffer)
        /\ upl' = [upl EXCEPT !.pc = "putItem"]
     \/ PutObjectFailed
  /\ UNCHANGED << table, now, uuids, anl, qry, calc, home >>

\* an item created with the status of an analysis under way
NewItemAnalyzing(created_at, updated_at) ==
  [contract_id |-> upl.contractId, filename |-> upl.req.filename,
   s3_key |-> upl.s3Key, content_type |-> upl.req.content_type,
   file_size |-> fileBuffer.size, status |-> "analyzing",
   created_at |-> <<created_at>>, updated_at |-> <<updated_at>>,
   analyzed_at |-> <<>>, analysis |-> <<>>]

\* part_002:448-457
NewItem(created_at, updated_at) ==
  [contract_id |-> upl.contractId, filename |-> upl.req.filename,
   s3_key |-> upl.s3Key, content_type |-> upl.req.content_type,
   file_size |-> fileBuffer.size, status |-> "uploaded",
   created_at |-> <<created_at>>, updated_at |-> <<updated_at>>,
   analyzed_at |-> <<>>, analysis |-> <<>>]

\* part_002:444-486
UploadPutItem ==
  /\ upl.pc = "putItem"
  /\ \E t1 \in ClockReads : \E t2 \in ClockReads :
       /\ t1 <= t2
       /\ now' = t2
       /\ \/ /\ table' = PutItem(table, NewItem(t1, t2))
             /\ UploadReturns(createResponse(200, upl.contractId, "uploaded", <<>>))
          \/ /\ table' = table
             /\ upl' = [upl EXCEPT !.pc = "cleanup", !.failed = @ \cup {"putItem"}]
  /\ UNCHANGED << bucket, uuids, anl, qry, calc, home >>

\* a cleanup that tries the delete again when it has failed
UploadCleanupRetries ==
  /\ upl.pc = "cleanup"
  /\ \/ /\ bucket' = DeleteObject(bucket, upl.s3Key)
        /\ UploadReturns(errorResponse(500))
     \/ /\ bucket' = bucket
        /\ upl' = [upl EXCEPT !.failed = @ \cup {"deleteObject"}]
  /\ UNCHANGED << table, now, uuids, anl, qry, calc, home >>

\* part_002:465-476
UploadCleanup ==
  /\ upl.pc = "cleanup"
  /\ \/ /\ bucket' = DeleteObject(bucket, upl.s3Key)
        /\ UploadReturns(errorResponse(500))
     \/ /\ bucket' = bucket
        /\ upl' = [upl EXCEPT !.pc = "done", !.resp = errorResponse(500),
                              !.failed = @ \cup {"deleteObject"}]
  /\ UNCHANGED << table, now, uuids, anl, qry, calc, home >>

(* ------------------------------ analyze -------------------------------- *)
\* The invocations are named in the order in which they begin.
Earlier(p) == \A q \in Analyzers : Before(q, p) => anl[q].pc # "idle"

\* the invocation notes the failure of op and issues op again
AnalyzeFailsRetries(p, op) ==
  anl' = [anl EXCEPT ![p].failed = @ \cup {op}]

\* the invocation returns after the store operation op has failed
AnalyzeFails(p, op) ==
  anl' = [anl EXCEPT ![p].pc = "done", ![p].resp = errorResponse(500),
                     ![p].failed = @ \cup {op}]

\* another invocation for the same id has begun and has not returned
InFlight(p, contract_id) ==
  \E q \in Analyzers \ {p} :
     anl[q].contract_id = contract_id /\ anl[q].pc \notin {"idle", "done"}

\* the attributes of the loaded item that the handler reads afterwards
\* (contract.s3_key, contract.content_type, contract.filename)
Read(item) ==
  [s3_key |-> item.s3_key, content_type |-> item.content_type,
   filename |-> item.filename]

\* the handler without the 'if (!getResult.Item)' return
AnalyzeGetNoCheck(p, contract_id) ==
  /\ anl[p].pc = "idle"
  /\ Earlier(p)
  /\ IF contract_id = 0
     THEN anl' = [anl EXCEPT ![p].pc = "done", ![p].resp = errorResponse(400)]
     ELSE \/ anl' = [anl EXCEPT ![p].pc = "done", ![p].contract_id = contract_id,
                                ![p].resp = errorResponse(500), ![p].failed = {"get"}]
          \/ anl' = [anl EXCEPT ![p].pc = "setStatus",
                                ![p].contract_id = contract_id,
                                ![p].parallel = InFlight(p, contract_id),
                                ![p].contract = <<Read(ItemOrBlank(table, contract_id))>>]
  /\ UNCHANGED << table, bucket, now, uuids, upl, qry, calc, home >>

\* the handler that goes from the loaded item straight to the fetch of the
\* object, without the update to analyzing
AnalyzeGetSkipsStatus(p, contract_id) ==
  /\ anl[p].pc = "idle"
  /\ Earlier(p)
  /\ IF contract_id = 0
     THEN anl' = [anl EXCEPT ![p].pc = "done", ![p].resp = errorResponse(400)]
     ELSE \/ anl' = [anl EXCEPT ![p].pc = "done", ![p].contract_id = contract_id,
                                ![p].resp = errorResponse(500), ![p].failed = {"get"}]
          \/ IF contract_id \notin DOMAIN table
             THEN anl' = [anl EXCEPT ![p].pc = "done", ![p].contract_id = contract_id,
                                     ![p].resp = errorResponse(404)]
             ELSE anl' = [anl EXCEPT ![p].pc = "getObject",
                                     ![p].contract_id = contract_id,
                                     ![p].parallel = InFlight(p, contract_id),
                                     ![p].contract = <<Read(table[contract_id])>>]
  /\ UNCHANGED << table, bucket, now, uuids, upl, qry, calc, home >>

\* part_002:47-77: the body is read and the item loaded; contract_id 0 is a
\* body without contract_id
AnalyzeGet(p, contract_id) ==
  /\ anl[p].pc = "idle"
  /\ Earlier(p)
  /\ IF contract_id = 0
     THEN anl' = [anl EXCEPT ![p].pc = "done", ![p].resp = errorResponse(400)]
     ELSE \/ \* GetCommand fails
             anl' = [anl EXCEPT ![p].pc = "done", ![p].contract_id = contract_id,
                                ![p].resp = errorResponse(500), ![p].failed = {"get"}]
          \/ IF contract_id \notin DOMAIN table
             THEN anl' = [anl EXCEPT ![p].pc = "done", ![p].contract_id = contract_id,
                                     ![p].resp = errorResponse(404)]
             ELSE anl' = [anl EXCEPT ![p].pc = "setStatus",
                                     ![p].contract_id = contract_id,
                                     ![p].parallel = InFlight(p, contract_id),
                                     ![p].contract = <<Read(table[contract_id])>>]
  /\ UNCHANGED << table, bucket, now, uuids, upl, qry, calc, home >>

\* part_002:79-95: the failure of the update is logged and nothing else
AnalyzeSetStatus(p) ==
  /\ anl[p].pc = "setStatus"
  /\ \E timestamp \in ClockReads :
       /\ now' = timestamp
       /\ \/ /\ table' = UpdateStatus(table, anl[p].contract_id, "analyzing", timestamp)
             /\ anl' = [anl EXCEPT ![p].pc = "getObject"]
          \/ /\ table' = table
             /\ anl' = [anl EXCEPT ![p].pc = "getObject",
                                   ![p].failed = @ \cup {"setStatus"}]
  /\ UNCHANGED << bucket, uuids, upl, qry, calc, home >>

\* part_002:97-115
AnalyzeGetObject(p) ==
  /\ anl[p].pc = "getObject"
  /\ LET contract == anl[p].contract[1]
     IN \/ /\ contract.s3_key \in DOMAIN bucket
           /\ anl' = [anl EXCEPT ![p].pc = "model",
                                 ![p].contractText =
                                    extractTextFromFile(bucket[contract.s3_key],
                                                        contract.content_type)]
        \/ \* GetObjectCommand or the read of its stream fails
           AnalyzeFails(p, "getObject")
  /\ UNCHANGED << table, bucket, now, uuids, upl, qry, calc, home >>

\* the model's failure returned to the caller
ModelStepRethrows(p, outcome) ==
  IF outcome.kind = "throws"
  THEN anl' = [anl EXCEPT ![p].pc = "done", ![p].resp = errorResponse(500)]
  ELSE anl' = [anl EXCEPT ![p].pc = "store",
                          ![p].analysis = << analyzeContractWithAI(outcome) >>]

\* part_002:117-125 for one thing the model can do
ModelStep(p, outcome) ==
  anl' = [anl EXCEPT ![p].pc = "store",
                     ![p].analysis = << analyzeContractWithAI(outcome) >>]

AnalyzeModel(p) ==
  /\ anl[p].pc = "model"
  /\ \E outcome \in ModelOutcomes : ModelStep(p, outcome)
  /\ UNCHANGED << table, bucket, now, uuids, upl, qry, calc, home >>

\* a result update that writes nothing
StoreResultSkipped(p, timestamp) ==
  table' = table

\* part_002:129-141: the write of the result
StoreResult(p, timestamp) ==
  table' = UpdateAnalysis(table, anl[p].contract_id, anl[p].analysis[1],
                          "completed", timestamp)

\* part_002:127-152
AnalyzeStore(p) ==
  /\ anl[p].pc = "store"
  /\ \E timestamp \in ClockReads :
       /\ now' = timestamp
       /\ \/ /\ StoreResult(p, timestamp)
             /\ anl' = [anl EXCEPT ![p].pc = "done",
                          ![p].resp = createResponse(200, anl[p].contract_id,
                                                     "completed", anl[p].analysis),
                          ![p].timestamp = <<timestamp>>]
          \/ /\ table' = table
             /\ AnalyzeFails(p, "store")
  /\ UNCHANGED << bucket, uuids, upl, qry, calc, home >>

(* ------------------------------- results ------------------------------- *)
DefaultLimit == 20      \* queryStringParameters.limit || '20'
ScanCap == 100          \* Math.min(limit, 100)

\* the limit of the query string, <<>> when there is none, and its status
LimitParams == { <<>>, <<0>>, <<1>>, <<2>>, <<150>> }
StatusParams == { Missing, "uploaded", "analyzing", "completed" }

\* parseInt(queryStringParameters.limit || '20', 10) of a decimal numeral
parseLimit(param) == IF param = <<>> THEN DefaultLimit ELSE param[1]

Min(a, b) == IF a <= b THEN a ELSE b

\* a lookup that answers with the whole item whatever its status
getContractAnalysisAnyStatus(t, contractId) ==
  LET asked == [NoQuery EXCEPT !.op = "get", !.contract_id = contractId]
  IN IF contractId \notin DOMAIN t
     THEN [asked EXCEPT !.statusCode = 404]
     ELSE LET contract == t[contractId]
          IN [asked EXCEPT !.statusCode = 200,
                !.contract = << View(contractId, contract.status,
                                     contract.filename, contract.created_at,
                                     contract.analyzed_at,
                                     IF contract.analysis = <<>>
                                     THEN << EmptyObject >>
                                     ELSE contract.analysis) >>]

\* index.ts:41-88, the response when the GetCommand has answered
getContractAnalysis(t, contractId) ==
  LET asked == [NoQuery EXCEPT !.op = "get", !.contract_id = contractId]
  IN IF contractId \notin DOMAIN t
     THEN [asked EXCEPT !.statusCode = 404]
     ELSE LET contract == t[contractId]
          IN IF contract.status \in {"uploaded", "analyzing"}
             THEN [asked EXCEPT !.statusCode = 202,
                     !.contract = << View(contractId, contract.status,
                                          <<>>, <<>>, <<>>, <<>>) >>]
             ELSE IF contract.status # "completed"
             THEN [asked EXCEPT !.statusCode = 500,
                     !.contract = << View(contractId,
                                          IF contract.status = Missing
                                          THEN "unknown" ELSE contract.status,
                                          <<>>, <<>>, <<>>, <<>>) >>]
             ELSE [asked EXCEPT !.statusCode = 200,
                     !.contract = << View(contractId, contract.status,
                                          contract.filename, contract.created_at,
                                          contract.analyzed_at,
                                          IF contract.analysis = <<>>
                                          THEN << EmptyObject >>
                                          ELSE contract.analysis) >>]

\* a lookup that sets the item it finds uploaded to analyzing
GetContractAnalysisStartsAnalysis(contractId) ==
  /\ qry.calls < MaxQueries
  /\ \E response \in { getContractAnalysis(table, contractId),
                        [NoQuery EXCEPT !.op = "get", !.contract_id = contractId,
                                        !.statusCode = 500] } :
        qry' = [response EXCEPT !.calls = qry.calls + 1]
  /\ table' = IF contractId \in DOMAIN table /\ table[contractId].status = "uploaded"
              THEN UpdateStatus(table, contractId, "analyzing", now)
              ELSE table
  /\ UNCHANGED << bucket, now, uuids, upl, anl, calc, home >>

\* index.ts:41-93
GetContractAnalysis(contractId) ==
  /\ qry.calls < MaxQueries
  /\ \E response \in { getContractAnalysis(table, contractId),
                        \* the GetCommand fails
                        [NoQuery EXCEPT !.op = "get", !.contract_id = contractId,
                                        !.statusCode = 500] } :
        qry' = [response EXCEPT !.calls = qry.calls + 1]
  /\ UNCHANGED << table, bucket, now, uuids, upl, anl, calc, home >>

\* ProjectionExpression 'contract_id, filename, #status, created_at,
\* analyzed_at, file_size'
Project(item) ==
  [contract_id |-> item.contract_id, filename |-> item.filename,
   status |-> item.status, created_at |-> item.created_at,
   analyzed_at |-> item.analyzed_at, file_size |-> item.file_size]

\* The orders in which a Scan can read the items of t: the order of the
\* hashes of their keys, which are random UUIDs.
ScanOrders(t) ==
  { order \in [1..Cardinality(DOMAIN t) -> DOMAIN t] :
       \A i \in DOMAIN order : \A j \in DOMAIN order :
          i # j => order[i] # order[j] }

\* a Scan without the FilterExpression
ScanUnfiltered(t, order, Limit, statusFilter, keyAtEnd) ==
  LET read == Min(Limit, Len(order))
      evaluated == [i \in 1..read |-> Project(t[order[i]])]
  IN [Items |-> evaluated,
      LastEvaluatedKey |-> read < Len(order) \/ (read = Limit /\ keyAtEnd)]

\* DynamoDB Scan with Limit and an optional FilterExpression, one page: it
\* reads at most Limit items in the table's order, then drops the items read
\* that do not match the filter.  The response has a LastEvaluatedKey when
\* the scan stopped at Limit before the end of the table; when the Limit-th
\* item read is the last one of the table it may have one or not (keyAtEnd).
Scan(t, order, Limit, statusFilter, keyAtEnd) ==
  LET read == Min(Limit, Len(order))
      evaluated == [i \in 1..read |-> Project(t[order[i]])]
      matches(item) == statusFilter = Missing \/ item.status = statusFilter
  IN [Items |-> SelectSeq(evaluated, matches),
      LastEvaluatedKey |-> read < Len(order) \/ (read = Limit /\ keyAtEnd)]

\* (a, b) => new Date(b.created_at || '').getTime()
\*           - new Date(a.created_at || '').getTime(); NaN compares as 0
compare(a, b) ==
  IF a.created_at = <<>> \/ b.created_at = <<>> THEN 0
  ELSE b.created_at[1] - a.created_at[1]

\* Array.prototype.sort, which is stable
Insert(x, s) ==
  LET after == { i \in 1..Len(s) : compare(s[i], x) > 0 }
      at == IF after = {} THEN Len(s) + 1
            ELSE CHOOSE i \in after : \A j \in after : i <= j
  IN SubSeq(s, 1, at - 1) \o << x >> \o SubSeq(s, at, Len(s))

RECURSIVE sort(_)
sort(s) ==
  IF s = <<>> THEN <<>>
  ELSE Insert(s[Len(s)], sort(SubSeq(s, 1, Len(s) - 1)))

\* a count that takes every contract, whatever its status
CountStatusUnfiltered(contracts, status) ==
  Cardinality({ i \in 1..Len(contracts) : contracts[i].status # Missing })

\* contracts.filter(c => c.status === status).length
CountStatus(contracts, status) ==
  Cardinality({ i \in 1..Len(contracts) : contracts[i].status = status })

\* a Scan that passes the requested limit on as it is
scanLimitUncapped(limit) == limit

\* Limit: Math.min(limit, 100)
scanLimit(limit) == Min(limit, ScanCap)

\* index.ts:95-137, the response when the ScanCommand has answered
listContracts(t, limit, statusFilter, order, keyAtEnd) ==
  LET response == Scan(t, order, scanLimit(limit), statusFilter, keyAtEnd)
      contracts == sort(response.Items)
      totalContracts == Len(contracts)
      completedContracts == CountStatus(contracts, "completed")
      analyzingContracts == CountStatus(contracts, "analyzing")
  IN [NoQuery EXCEPT
        !.op = "list", !.limit = <<limit>>, !.statusFilter = statusFilter,
        !.Limit = scanLimit(limit), !.statusCode = 200,
        !.contracts = contracts,
        !.summary = [total |-> totalContracts,
                     completed |-> completedContracts,
                     analyzing |-> analyzingContracts,
                     uploaded |-> totalContracts - completedContracts
                                   - analyzingContracts],
        !.pagination = [limit |-> limit, has_more |-> response.LastEvaluatedKey]]

\* index.ts:30-32 and 95-143.  DynamoDB rejects a Scan whose Limit is below 1
\* (ValidationException), and the ScanCommand can fail otherwise.
ListContracts(limitParam, statusFilter) ==
  /\ qry.calls < MaxQueries
  /\ LET limit == parseLimit(limitParam)
         failed == [NoQuery EXCEPT !.op = "list", !.limit = <<limit>>,
                                   !.statusFilter = statusFilter,
                                   !.Limit = scanLimit(limit), !.statusCode = 500]
     IN \/ /\ scanLimit(limit) >= 1
           /\ \E order \in ScanOrders(table) : \E keyAtEnd \in BOOLEAN :
                 qry' = [listContracts(table, limit, statusFilter, order, keyAtEnd)
                           EXCEPT !.calls = qry.calls + 1]
        \/ qry' = [failed EXCEPT !.calls = qry.calls + 1]
  /\ UNCHANGED << table, bucket, now, uuids, upl, anl, calc, home >>

(* ------------------- functions of the analyze handler ------------------ *)
TextOperatorMin == 50          \* extractedText.length < 50
ExtractedMin == 100            \* extractedText.length < 100
SampleAgreementChars == 1143   \* the length of the SAMPLE SERVICE AGREEMENT text
PromptChars == 4000            \* contractText.substring(0, 4000)

\* the SAMPLE SERVICE AGREEMENT of part_002:186-216
SampleAgreement == Text("sample agreement", SampleAgreementChars)

\* the extraction that looks for readable text whenever it holds fewer than
\* 100 characters
extractPdfTextOneThreshold(pdf) ==
  LET textMatches == Text("textMatches", pdf.textMatches)
      extractedText == IF textMatches.len < ExtractedMin
                       THEN Text("readableText", pdf.readableText)
                       ELSE textMatches
  IN IF extractedText.len < ExtractedMin THEN SampleAgreement
     ELSE extractedText

\* part_002:170-219, the PDF branch of extractTextFromFile.  A PDF is given
\* by what its two scans find: textMatches is the number of characters of
\* the joined, cleaned and trimmed matches of /BT\s*.*?\s*ET/g, readableText
\* that of the matches of /[a-zA-Z\s.,!?;:'"()-]{20,}/g.
extractPdfText(pdf) ==
  LET textMatches == Text("textMatches", pdf.textMatches)
      extractedText == IF textMatches.len < TextOperatorMin
                       THEN Text("readableText", pdf.readableText)
                       ELSE textMatches
  IN IF extractedText.len < ExtractedMin THEN SampleAgreement
     ELSE extractedText

\* the last end - start characters of the text
substringFromEnd(text, start, end) ==
  LET a == Min(start, text.len)
      b == Min(end, text.len)
  IN [text EXCEPT !.from = text.from + text.len - (b - a), !.len = b - a]

\* String.prototype.substring(start, end) for 0 <= start <= end
substring(text, start, end) ==
  LET a == Min(start, text.len)
      b == Min(end, text.len)
  IN [text EXCEPT !.from = text.from + a, !.len = b - a]

\* part_002:249-287: the parts of the prompt that come from the arguments
prompt(contractText, filename) ==
  [filename |-> filename,
   contractText |-> substring(contractText, 0, PromptChars)]

\* the numbers of characters the scans of a PDF find
PdfLengths == {0, 20, 49, 50, 99, 100, 150}

\* the numbers of characters of an extracted text
TextLengths == {0, 1, 3999, 4000, 4001, 8000}

\* the arguments the functions are applied to
CalcInputs ==
  { [NoCalc EXCEPT !.fn = "extractPdfText",
                   !.pdf = [textMatches |-> t, readableText |-> r]] :
       t \in PdfLengths, r \in PdfLengths }
  \cup { [NoCalc EXCEPT !.fn = "analyzeContractWithAI", !.outcome = outcome] :
            outcome \in ModelOutcomes }
  \cup { [NoCalc EXCEPT !.fn = "prompt", !.contractText = Text(of, len),
                        !.filename = <<"c", ".", "P">>] :
            of \in {"textMatches", "result.value"}, len \in TextLengths }

InitCalc ==
  /\ table = <<>>
  /\ bucket = <<>>
  /\ now = 0
  /\ uuids = 0
  /\ upl = UplIdle
  /\ anl = [p \in Analyzers |-> AnlIdle]
  /\ qry = NoQuery
  /\ calc \in CalcInputs
  /\ home = NoHome

ApplyExtractPdfText ==
  /\ calc.fn = "extractPdfText" /\ ~ calc.applied
  /\ calc' = [calc EXCEPT !.applied = TRUE,
                          !.extractedText = << extractPdfText(calc.pdf) >>]
  /\ UNCHANGED << table, bucket, now, uuids, upl, anl, qry, home >>

ApplyAnalyzeContractWithAI ==
  /\ calc.fn = "analyzeContractWithAI" /\ ~ calc.applied
  /\ calc' = [calc EXCEPT !.applied = TRUE,
                          !.analysis = << analyzeContractWithAI(calc.outcome) >>]
  /\ UNCHANGED << table, bucket, now, uuids, upl, anl, qry, home >>

ApplyPrompt ==
  /\ calc.fn = "prompt" /\ ~ calc.applied
  /\ calc' = [calc EXCEPT !.applied = TRUE,
                          !.prompt = << prompt(calc.contractText, calc.filename) >>]
  /\ UNCHANGED << table, bucket, now, uuids, upl, anl, qry, home >>

(* ------------------------------ front end ------------------------------ *)
\* the files that can be dropped, by name, and what the two requests can
\* answer: the contract_id of the upload response (0 when it has none) and
\* the analysis of the analyze response
Files == { "a.pdf", "b.docx" }
UploadResults == Ids \cup {0}
AnalysisResults == { getFallbackAnalysis, EmptyObject }

\* a call of the setter of one state: setFile, setIsUploading, setIsAnalyzing,
\* setProgress, setResult, setError
Set(state, to) == [set |-> state, to |-> to]

\* the state after the setters have been called in order
RECURSIVE setState(_, _)
setState(s, setters) ==
  IF Len(setters) = 0 THEN s
  ELSE setState([s EXCEPT ![Head(setters).set] = Head(setters).to], Tail(setters))

\* What renders can show while the setters are called one after the other:
\* React renders the state after all of them when it batches the updates and
\* after each of them when it does not.
Renders(s, setters) ==
  { Shown(setState(s, SubSeq(setters, 1, k))) : k \in 0..Len(setters) }

\* the page after a stretch of code that calls the setters and leaves the
\* page in next
Rendered(setters, next) ==
  home' = [state |-> next, seen |-> home.seen \cup Renders(home.state, setters)]

\* a finally that leaves the two flags as they are
FinallyKeepsFlags == SubSeq(<< Set("isUploading", FALSE) >>, 1, 0)

\* part_001:126-129
Finally ==
  << Set("isUploading", FALSE), Set("isAnalyzing", FALSE) >>

\* part_001:123-129: the catch with the message it shows, and the finally
Caught(message) ==
  << Set("error", <<message>>) >> \o Finally

\* uploadAndAnalyze returns through its catch after the setters
Throws(setters, message) ==
  LET all == setters \o Caught(message)
  IN Rendered(all, [setState(home.state, all) EXCEPT !.pc = "done"])

\* the upload card is rendered (part_001:189) with the buttons of a chosen
\* file (224-236), which are enabled (233, 240)
ButtonsEnabledWithResult ==
  /\ home.state.file # <<>>
  /\ ~ (home.state.isUploading \/ home.state.isAnalyzing)

ButtonsEnabled ==
  /\ home.state.result = <<>>
  /\ home.state.file # <<>>
  /\ ~ (home.state.isUploading \/ home.state.isAnalyzing)

\* part_001:49-61: a file is dropped or chosen; the dropzone is there while
\* the upload card shows no file (189, 214, 222)
OnDrop(f) ==
  /\ home.state.result = <<>>
  /\ home.state.file = <<>>
  /\ LET setters == << Set("file", <<f>>), Set("error", <<>>) >>
     IN Rendered(setters, setState(home.state, setters))
  /\ UNCHANGED << table, bucket, now, uuids, upl, anl, qry, calc >>

\* part_001:237-243: the Remove button
RemoveFile ==
  /\ ButtonsEnabled
  /\ LET setters == << Set("file", <<>>) >>
     IN Rendered(setters, setState(home.state, setters))
  /\ UNCHANGED << table, bucket, now, uuids, upl, anl, qry, calc >>

\* part_001:63-73: the Analyze Contract button calls uploadAndAnalyze, which
\* runs up to the await of fileToBase64
UploadAndAnalyze ==
  /\ ButtonsEnabled
  /\ home.state.runs < MaxRuns
  /\ IF home.state.file = <<>>
     THEN home' = [home EXCEPT !.state.runs = @ + 1]
     ELSE LET setters == << Set("isUploading", TRUE), Set("isAnalyzing", FALSE),
                            Set("progress", 10), Set("error", <<>>) >>
          IN Rendered(setters,
                      [setState(home.state, setters) EXCEPT
                         !.pc = "fileToBase64", !.closure = home.state.file,
                         !.contract_id = 0, !.runs = @ + 1, !.uploadOk = FALSE,
                         !.analyzeSent = FALSE, !.analyzeOk = FALSE])
  /\ UNCHANGED << table, bucket, now, uuids, upl, anl, qry, calc >>

\* part_001:73-88 and 132-139: the FileReader has read the file, and the
\* upload request is sent, or has failed, and its event is thrown
FileToBase64 ==
  /\ home.state.pc = "fileToBase64"
  /\ \/ LET setters == << Set("progress", 30) >>
        IN Rendered(setters, [setState(home.state, setters) EXCEPT !.pc = "upload"])
     \/ Throws(<< >>, "An error occurred")
  /\ UNCHANGED << table, bucket, now, uuids, upl, anl, qry, calc >>

\* part_001:78-92: fetch rejects, or the response is not ok, or it is ok and
\* its body is awaited
UploadFetch ==
  /\ home.state.pc = "upload"
  /\ \/ Throws(<< >>, "Failed to fetch")
     \/ Throws(<< >>, "Upload failed")
     \/ home' = [home EXCEPT !.state.pc = "uploadJson", !.state.uploadOk = TRUE]
  /\ UNCHANGED << table, bucket, now, uuids, upl, anl, qry, calc >>

\* part_001:94-108: the body of the upload response is no JSON, or it is
\* decoded and the analyze request is sent with its contract_id
UploadJson ==
  /\ home.state.pc = "uploadJson"
  /\ \/ Throws(<< >>, "Unexpected end of JSON input")
     \/ \E contract_id \in UploadResults :
          LET setters == << Set("progress", 50), Set("isUploading", FALSE),
                            Set("isAnalyzing", TRUE) >>
          IN Rendered(setters,
                      [setState(home.state, setters) EXCEPT
                         !.pc = "analyze", !.contract_id = contract_id,
                         !.analyzeSent = TRUE])
  /\ UNCHANGED << table, bucket, now, uuids, upl, anl, qry, calc >>

\* part_001:100-114
AnalyzeFetch ==
  /\ home.state.pc = "analyze"
  /\ \/ Throws(<< >>, "Failed to fetch")
     \/ Throws(<< Set("progress", 90) >>, "Analysis failed")
     \/ LET setters == << Set("progress", 90) >>
        IN Rendered(setters,
                    [setState(home.state, setters) EXCEPT
                       !.pc = "analyzeJson", !.analyzeOk = TRUE])
  /\ UNCHANGED << table, bucket, now, uuids, upl, anl, qry, calc >>

\* part_001:116-129: { ...analysisResult, filename: file.name }
AnalyzeJson ==
  /\ home.state.pc = "analyzeJson"
  /\ \/ Throws(<< >>, "Unexpected end of JSON input")
     \/ \E analysis \in AnalysisResults :
          LET analysisResult == [contract_id |-> home.state.contract_id,
                                 status |-> "completed", analysis |-> analysis,
                                 filename |-> home.state.closure[1]]
              body == << Set("result", << analysisResult >>), Set("progress", 100) >>
              setters == body \o Finally
          IN Rendered(setters, [setState(home.state, setters) EXCEPT !.pc = "done"])
  /\ UNCHANGED << table, bucket, now, uuids, upl, anl, qry, calc >>

\* part_001:153-160, called by the button of the results section (321-331)
ResetAnalysis ==
  /\ home.state.result # <<>>
  /\ LET setters == << Set("file", <<>>), Set("result", <<>>), Set("error", <<>>),
                       Set("progress", 0), Set("isUploading", FALSE),
                       Set("isAnalyzing", FALSE) >>
     IN Rendered(setters, setState(home.state, setters))
  /\ UNCHANGED << table, bucket, now, uuids, upl, anl, qry, calc >>

(* ---------------------------- specification ---------------------------- *)
Next ==
  \/ \E req \in UploadRequests : UploadBegin(req)
  \/ UploadPutObject
  \/ UploadPutItem
  \/ UploadCleanup
  \/ \E p \in Analyzers : \E contract_id \in Ids \cup {0} : AnalyzeGet(p, contract_id)
  \/ \E p \in Analyzers : AnalyzeSetStatus(p)
  \/ \E p \in Analyzers : AnalyzeGetObject(p)
  \/ \E p \in Analyzers : AnalyzeModel(p)
  \/ \E p \in Analyzers : AnalyzeStore(p)

Spec == Init /\ [][Next]_vars

\* The results handler beside the uploads and one analyze invocation
ResultsAnalyzers == {"a1"}

NextResults ==
  \/ \E req \in UploadRequests : UploadBegin(req)
  \/ UploadPutObject
  \/ UploadPutItem
  \/ UploadCleanup
  \/ \E p \in ResultsAnalyzers : \E contract_id \in Ids \cup {0} : AnalyzeGet(p, contract_id)
  \/ \E p \in ResultsAnalyzers : AnalyzeSetStatus(p)
  \/ \E p \in ResultsAnalyzers : AnalyzeGetObject(p)
  \/ \E p \in ResultsAnalyzers : AnalyzeModel(p)
  \/ \E p \in ResultsAnalyzers : AnalyzeStore(p)
  \/ \E contractId \in Ids : GetContractAnalysis(contractId)
  \/ \E limitParam \in LimitParams : \E statusFilter \in StatusParams :
        ListContracts(limitParam, statusFilter)

SpecResults == Init /\ [][NextResults]_vars

\* The functions of the analyze handler, each applied to one argument
NextCalc ==
  \/ ApplyExtractPdfText
  \/ ApplyAnalyzeContractWithAI
  \/ ApplyPrompt

SpecCalc == InitCalc /\ [][NextCalc]_vars

\* The front-end page on its own
NextHome ==
  \/ \E f \in Files : OnDrop(f)
  \/ RemoveFile
  \/ UploadAndAnalyze
  \/ FileToBase64
  \/ UploadFetch
  \/ UploadJson
  \/ AnalyzeFetch
  \/ AnalyzeJson
  \/ ResetAnalysis

SpecHome == Init /\ [][NextHome]_vars

(* ------------------------------- claims -------------------------------- *)
\* the invocation p loaded an item and none of its store operations failed
Unfailed(p) == anl[p].contract # <<>> /\ anl[p].failed = {}

\* no other analyze invocation has been given the id of p
OnlyCall(p) ==
  \A q \in Analyzers \ {p} : anl[q].contract_id # anl[p].contract_id

\* C1: an analyze call for the id of an existing record whose store operations
\* all succeed returns 200 with status completed and an analysis, whatever the
\* model did; the object it has to fetch exists; and when it is the only
\* analyze call for the id the stored status is completed once it has returned.
AnalyzeAbsorbsModelFailure ==
  \A p \in Analyzers :
     Unfailed(p) =>
        /\ anl[p].pc = "getObject" => anl[p].contract[1].s3_key \in DOMAIN bucket
        /\ anl[p].pc = "done" =>
             /\ anl[p].analysis # <<>>
             /\ anl[p].resp = createResponse(200, anl[p].contract_id, "completed",
                                             anl[p].analysis)
             /\ OnlyCall(p) => table[anl[p].contract_id].status = "completed"

\* C1 witness: a single call has returned 200 with the fallback analysis
\* and the record is completed
FallbackCompleted ==
  \E p \in Analyzers :
     /\ anl[p].pc = "done" /\ Unfailed(p) /\ OnlyCall(p)
     /\ anl[p].resp.statusCode = 200
     /\ anl[p].resp.analysis = << getFallbackAnalysis >>
     /\ table[anl[p].contract_id].status = "completed"
     /\ table[anl[p].contract_id].analysis = << getFallbackAnalysis >>

\* C2: every analysis stored in a record or returned by analyze is
\* schema-valid (members present, risk_score and every severity in 1..10)
EveryAnalysisSchemaValid ==
  /\ \A id \in DOMAIN table :
        \A i \in 1..Len(table[id].analysis) : SchemaValid(table[id].analysis[i])
  /\ \A p \in Analyzers :
        \A i \in 1..Len(anl[p].resp.analysis) : SchemaValid(anl[p].resp.analysis[i])

Rank(status) ==
  CASE status = "uploaded" -> 1
    [] status = "analyzing" -> 2
    [] status = "completed" -> 3
    [] OTHER -> 0

AnalysisIffCompleted ==
  \A id \in DOMAIN table :
     table[id].analysis # <<>> <=> table[id].status = "completed"

\* C4 amended: a completed record has an analysis and an uploaded record has
\* none
CompletedHasAnalysisUploadedHasNone ==
  \A id \in DOMAIN table :
     /\ table[id].status = "completed" => table[id].analysis # <<>>
     /\ table[id].status = "uploaded" => table[id].analysis = <<>>

\* C4 witness: an analyzing record that holds an analysis, beside a completed
\* or uploaded one
AnalyzingWithAnalysis ==
  \E id \in DOMAIN table :
     /\ table[id].status = "analyzing" /\ table[id].analysis # <<>>
     /\ \E other \in DOMAIN table : table[other].status # "analyzing"

\* C5 as stated: no step changes an analysis that is stored
AnalysisImmutable ==
  [][ \A id \in DOMAIN table :
         table[id].analysis # <<>> => table'[id].analysis = table[id].analysis ]_vars

\* the step is the successful result update of p
Stores(p) ==
  /\ anl[p].pc = "store"
  /\ anl'[p].pc = "done"
  /\ anl'[p].resp.statusCode = 200

\* C5 amended: a stored analysis is never removed, and it changes only in the
\* result update of an analyze call for its id, to the analysis of that call
AnalysisChangedOnlyByResultUpdate ==
  [][ \A id \in DOMAIN table :
         (table[id].analysis # <<>> /\ table'[id].analysis # table[id].analysis)
            => \E p \in Analyzers :
                  /\ Stores(p)
                  /\ anl[p].contract_id = id
                  /\ table'[id].analysis = anl[p].analysis ]_vars

\* C5 witness: two calls for one id have returned different analyses
AnalysisReplaced ==
  \E p \in Analyzers : \E q \in Analyzers \ {p} :
     /\ anl[p].pc = "done" /\ anl[q].pc = "done"
     /\ anl[p].resp.statusCode = 200 /\ anl[q].resp.statusCode = 200
     /\ anl[p].contract_id = anl[q].contract_id
     /\ anl[p].resp.analysis # anl[q].resp.analysis
     /\ ~ anl[q].parallel /\ ~ anl[p].parallel
     /\ table[anl[p].contract_id].analysis = anl[q].resp.analysis

\* two calls for one id have run in parallel and both have returned
BothReturned(p, q) ==
  /\ p # q
  /\ anl[p].pc = "done" /\ anl[q].pc = "done"
  /\ anl[p].contract_id = anl[q].contract_id
  /\ anl[p].parallel \/ anl[q].parallel

\* the item holds the result update of r, whole
HoldsResultOf(item, r) ==
  /\ item.analysis = anl[r].analysis
  /\ item.analyzed_at = anl[r].timestamp
  /\ item.updated_at = anl[r].timestamp

\* C6: after two parallel calls for one id whose store operations succeeded,
\* the record is completed and holds the whole result update of one of them,
\* a schema-valid analysis
ParallelCallsLeaveValidResult ==
  \A p \in Analyzers : \A q \in Analyzers :
     (BothReturned(p, q) /\ Unfailed(p) /\ Unfailed(q)) =>
        LET item == table[anl[p].contract_id]
        IN /\ item.status = "completed"
           /\ HoldsResultOf(item, p) \/ HoldsResultOf(item, q)
           /\ \A i \in 1..Len(item.analysis) : SchemaValid(item.analysis[i])

\* C7: every result update that succeeds is applied, whatever the item holds:
\* right after it the item has the analysis and timestamp of the call and
\* status completed
LastWriterWins ==
  [][ \A p \in Analyzers :
         Stores(p) =>
            /\ table'[anl[p].contract_id].status = "completed"
            /\ table'[anl[p].contract_id].analysis = anl[p].analysis
            /\ table'[anl[p].contract_id].analyzed_at = anl'[p].timestamp ]_vars

\* C7 witness: two parallel calls have both stored, with different analyses,
\* and the record holds the analysis of one of them
ParallelCallsBothStored ==
  \E p \in Analyzers : \E q \in Analyzers :
     /\ BothReturned(p, q)
     /\ anl[p].resp.statusCode = 200 /\ anl[q].resp.statusCode = 200
     /\ anl[p].resp.analysis # anl[q].resp.analysis
     /\ table[anl[p].contract_id].analysis = anl[p].resp.analysis

\* nothing is stored for the upload in progress
NothingStored ==
  /\ upl.contractId \notin DOMAIN table
  /\ \A key \in DOMAIN bucket : key.id # upl.contractId

\* C8: an upload whose content type is none of PDF, DOCX and plain text ends
\* with 400 and stores neither an object nor an item
UnsupportedTypeRejected ==
  (upl.pc # "idle" /\ upl.req.content_type \notin {PDF, DOCX, TXT}) =>
     /\ upl.pc = "done" => upl.resp.statusCode = 400
     /\ NothingStored

Undecodable(file_data) ==
  \/ file_data.kind # "string"
  \/ \E i \in 1..Len(file_data.chars) : file_data.chars[i] \notin Base64Chars

\* C9: an upload without file data, or with file data that is not base64,
\* ends with 400 and stores neither an object nor an item
UndecodableRejected ==
  (upl.pc # "idle" /\ (upl.req.file_data.chars = <<>> \/ Undecodable(upl.req.file_data))) =>
     /\ upl.pc = "done" => upl.resp.statusCode = 400
     /\ NothingStored

\* C10: an upload whose PutObject failed has returned 500 and there is no
\* item with its id
FailedBlobWriteCreatesNoRecord ==
  "putObject" \in upl.failed =>
     /\ upl.pc = "done"
     /\ upl.resp.statusCode = 500
     /\ upl.contractId \notin DOMAIN table

\* C10 witness: the upload of a well-formed request has failed at PutObject
BlobWriteFailed ==
  /\ upl.failed = {"putObject"}
  /\ upl.pc = "done"
  /\ upl.req.file_data = Document
  /\ upl.contractId > 0 /\ upl.contractId \notin DOMAIN table

\* the upload in progress takes a step of its own
UploadSteps == upl' # upl /\ upl'.calls = upl.calls

\* C11: an upload whose PutObject succeeded and whose PutCommand failed makes
\* one attempt to delete the object and returns 500.  While the delete is
\* pending the object is there and no item; the one step after it ends the
\* invocation; after a delete that succeeded neither object nor item is
\* there, after a delete that failed the object is still there; and a
\* returned invocation does nothing more.
CompensatingDeleteOnce ==
  /\ [] ("putItem" \in upl.failed =>
            /\ upl.pc \in {"cleanup", "done"}
            /\ upl.contractId \notin DOMAIN table
            /\ upl.pc = "cleanup" =>
                 /\ upl.s3Key \in DOMAIN bucket
                 /\ "deleteObject" \notin upl.failed
            /\ upl.pc = "done" =>
                 /\ upl.resp.statusCode = 500
                 /\ "deleteObject" \in upl.failed <=> upl.s3Key \in DOMAIN bucket
                 /\ "deleteObject" \notin upl.failed => NothingStored)
  /\ [][ ("putItem" \in upl.failed /\ UploadSteps) =>
            /\ upl.pc = "cleanup"
            /\ upl'.pc = "done"
            /\ table' = table
            /\ bucket' \in {bucket, DeleteObject(bucket, upl.s3Key)} ]_vars

\* C11 witness: the PutCommand and the delete have both failed and the
\* object of the upload is left in the bucket, with no item
BlobOrphaned ==
  /\ upl.pc = "done"
  /\ upl.failed = {"putItem", "deleteObject"}
  /\ upl.resp.statusCode = 500
  /\ upl.s3Key \in DOMAIN bucket
  /\ upl.contractId \notin DOMAIN table

\* the step is the successful PutCommand of the upload in progress
Submits ==
  /\ upl.pc = "putItem"
  /\ upl'.pc = "done"
  /\ upl'.resp.statusCode = 200

\* C12: the id an upload returns with 200 is the key of an item, items are
\* never removed, and the PutCommand of a successful upload writes a key that
\* had no item (so the id differs from every id returned before) and leaves
\* every other item as it was.
SubmitCreatesNewRecord ==
  /\ [] (upl.resp.statusCode = 200 =>
            /\ upl.resp.contract_id \in DOMAIN table
            /\ table[upl.resp.contract_id].contract_id = upl.resp.contract_id)
  /\ [][ /\ DOMAIN table \subseteq DOMAIN table'
         /\ Submits =>
              /\ upl'.resp.contract_id = upl.contractId
              /\ upl.contractId \notin DOMAIN table
              /\ DOMAIN table' = DOMAIN table \cup {upl.contractId}
              /\ \A id \in DOMAIN table : table'[id] = table[id] ]_vars

\* C12 witness: a second upload has returned 200 beside the item of the first
\* one, with another id
TwoSubmitsTwoRecords ==
  /\ upl.pc = "done" /\ upl.calls = 2
  /\ upl.resp.statusCode = 200
  /\ \E id \in DOMAIN table :
        /\ id # upl.resp.contract_id
        /\ table[id].created_at # <<>>

\* the step is the beginning of the analyze call p, for an id without item
BeginsUnknown(p) ==
  /\ anl[p].pc = "idle"
  /\ anl'[p].pc # "idle"
  /\ anl'[p].contract_id # 0
  /\ anl'[p].contract_id \notin DOMAIN table

\* C14: an analyze call for an id that has no item returns in its first step,
\* with 404 when the GetCommand answers (500 when the GetCommand itself
\* fails), and that step changes neither table nor bucket; the call has
\* loaded no item, fetched no object, asked the model nothing and written no
\* result, and it takes no step afterwards.
AnalyzeUnknownIdNoEffect ==
  /\ [] (\A p \in Analyzers :
            anl[p].resp.statusCode = 404 =>
               /\ anl[p].pc = "done"
               /\ anl[p].contract = <<>>
               /\ anl[p].contractText = ""
               /\ anl[p].analysis = <<>>
               /\ anl[p].timestamp = <<>>
               /\ anl[p].failed = {})
  /\ [][ \A p \in Analyzers :
            /\ anl[p].pc = "done" => anl'[p] = anl[p]
            /\ BeginsUnknown(p) =>
                 /\ anl'[p].pc = "done"
                 /\ anl'[p].resp.statusCode =
                      (IF "get" \in anl'[p].failed THEN 500 ELSE 404)
                 /\ table' = table
                 /\ bucket' = bucket ]_vars

\* C14 witness: a call for an id that has no item has returned 404 while the
\* table holds the item of another id, untouched
UnknownIdNotFound ==
  \E p \in Analyzers :
     /\ anl[p].pc = "done" /\ anl[p].resp.statusCode = 404
     /\ anl[p].contract_id \notin DOMAIN table
     /\ \E id \in DOMAIN table : table[id].status = "uploaded"

\* C20: the extraction of a document whose content type is none of PDF, DOCX
\* and plain text fails: the analyze call that loaded such an item holds no
\* contract text and never comes to ask the model
UnsupportedFormatExtractionFails ==
  \A p \in Analyzers :
     (anl[p].contract # <<>> /\ anl[p].contract[1].content_type \notin {PDF, DOCX, TXT}) =>
        /\ anl[p].contractText = ""
        /\ anl[p].pc \notin {"model", "store"}
        /\ anl[p].resp.statusCode # 200

\* the step is a results invocation for one contract whose GetCommand answered
GetAnswers ==
  /\ qry'.calls # qry.calls
  /\ qry'.op = "get"
  /\ ~ (qry'.statusCode = 500 /\ qry'.contract = <<>>)

\* the pending response: contract_id and status, nothing else of the item
Pending(contract_id, status) ==
  << View(contract_id, status, <<>>, <<>>, <<>>, <<>>) >>

\* C13: a lookup of an id that has an item (every id a successful upload
\* returned has one) and that no analyze call has been given answers 202 with
\* status uploaded and no analysis
GetBeforeAnalyzeIsUploaded ==
  [][ ( /\ GetAnswers
        /\ qry'.contract_id \in DOMAIN table
        /\ \A p \in Analyzers : anl[p].contract_id # qry'.contract_id )
      => /\ qry'.statusCode = 202
         /\ qry'.contract = Pending(qry'.contract_id, "uploaded") ]_vars

\* C13 witness: the lookup of an uploaded id that has not been analyzed has
\* answered 202 uploaded, while another item is completed
UploadedSeenBeforeAnalyze ==
  /\ qry.op = "get" /\ qry.statusCode = 202
  /\ qry.contract = Pending(qry.contract_id, "uploaded")
  /\ upl.resp.statusCode = 200 /\ upl.resp.contract_id = qry.contract_id
  /\ \A p \in Analyzers : anl[p].contract_id # qry.contract_id
  /\ \E id \in DOMAIN table : table[id].status = "completed"

\* C15: a lookup whose GetCommand answered returns 404 and no contract for an
\* id without item, 202 with the stored status and no analysis for an
\* uploaded or analyzing item, and 200 with the stored filename, timestamps
\* and analysis for a completed item; an item has no other status
GetViewFollowsStatus ==
  [][ GetAnswers =>
        LET id == qry'.contract_id
        IN IF id \notin DOMAIN table
           THEN qry'.statusCode = 404 /\ qry'.contract = <<>>
           ELSE /\ table[id].status \in {"uploaded", "analyzing", "completed"}
                /\ table[id].status \in {"uploaded", "analyzing"} =>
                     /\ qry'.statusCode = 202
                     /\ qry'.contract = Pending(id, table[id].status)
                /\ table[id].status = "completed" =>
                     /\ qry'.statusCode = 200
                     /\ table[id].analysis # <<>>
                     /\ qry'.contract =
                          << View(id, "completed", table[id].filename,
                                  table[id].created_at, table[id].analyzed_at,
                                  table[id].analysis) >> ]_vars

\* C15 witness: a lookup has answered 200 with the analysis that the analyze
\* call stored
CompletedSeenWithAnalysis ==
  /\ qry.op = "get" /\ qry.statusCode = 200
  /\ qry.contract_id \in DOMAIN table
  /\ table[qry.contract_id].status = "completed"
  /\ qry.contract[1].analysis = table[qry.contract_id].analysis
  /\ \E p \in Analyzers : anl[p].resp.analysis = qry.contract[1].analysis

\* the step is a listing whose ScanCommand answered
ListAnswers ==
  /\ qry'.calls # qry.calls
  /\ qry'.op = "list"
  /\ qry'.statusCode = 200

\* the ids of the items of the table that match the status filter
Matching(statusFilter) ==
  { id \in DOMAIN table :
       statusFilter = Missing \/ table[id].status = statusFilter }

\* the ids on the page of the response q
OnPage(q) == { q.contracts[i].contract_id : i \in 1..Len(q.contracts) }

\* C16: the summary of a listing counts all the items of the table that
\* match the status filter, by status
SummaryCountsAllMatching ==
  [][ ListAnswers =>
        LET all == Matching(qry'.statusFilter)
            with(status) == Cardinality({ id \in all : table[id].status = status })
        IN /\ qry'.summary.total = Cardinality(all)
           /\ qry'.summary.completed = with("completed")
           /\ qry'.summary.analyzing = with("analyzing")
           /\ qry'.summary.uploaded = with("uploaded") ]_vars

\* C17: a listing returns min(limit, number of matching items) items, in
\* descending order of created_at, and no matching item left out is newer
\* than an item returned
ListReturnsNewestMatching ==
  [][ ListAnswers =>
        LET all == Matching(qry'.statusFilter)
            page == qry'.contracts
        IN /\ Len(page) = Min(qry'.limit[1], Cardinality(all))
           /\ OnPage(qry') \subseteq all
           /\ \A i \in 1..Len(page) : \A j \in 1..Len(page) :
                 i < j => page[i].created_at[1] >= page[j].created_at[1]
           /\ \A id \in all \ OnPage(qry') : \A i \in 1..Len(page) :
                 table[id].created_at[1] <= page[i].created_at[1] ]_vars

\* C18: has_more of a listing is true exactly when the table holds a
\* matching item that is not on the page
HasMoreIffMatchingLeft ==
  [][ ListAnswers =>
        (qry'.pagination.has_more
           <=> Matching(qry'.statusFilter) \ OnPage(qry') # {}) ]_vars

\* C19: the Limit a listing gives the Scan is the requested limit, or 100
\* when that is above 100, and the listing returns at most Limit items, so
\* at most 100
ListAtMostCap ==
  qry.op = "list" =>
     /\ qry.Limit = (IF qry.limit[1] > ScanCap THEN ScanCap ELSE qry.limit[1])
     /\ qry.Limit <= ScanCap
     /\ Len(qry.contracts) <= qry.Limit
     /\ Len(qry.contracts) <= ScanCap

\* C19 witness: a listing asked for 150 items has scanned with Limit 100 and
\* returned every item of the table
CappedListing ==
  /\ qry.op = "list" /\ qry.statusCode = 200
  /\ qry.limit = <<150>> /\ qry.Limit = ScanCap
  /\ Len(qry.contracts) = 2
  /\ OnPage(qry) = DOMAIN table

\* the extractor of the format cannot read the object: mammoth rejects bytes
\* that are no DOCX archive (the decoding of plain text accepts any bytes)
ExtractorRejects(p) ==
  /\ anl[p].contract # <<>>
  /\ anl[p].contract[1].content_type = DOCX
  /\ anl[p].contract[1].s3_key \in DOMAIN bucket
  /\ ~ bucket[anl[p].contract[1].s3_key].doc

\* C21: when the extractor of a DOCX or plain-text document fails, the
\* analyze call holds no contract text, does not come to ask the model and
\* does not return 200
SupportedFormatFailureIsHardError ==
  \A p \in Analyzers :
     ExtractorRejects(p) =>
        /\ anl[p].contractText = ""
        /\ anl[p].pc \notin {"model", "store"}
        /\ anl[p].resp.statusCode # 200

StoreFailuresAreTerminal ==
  \A p \in Analyzers :
     anl[p].failed # {} =>
        /\ anl[p].pc = "done"
        /\ anl[p].resp.statusCode = 500
        /\ "setStatus" \in anl[p].failed =>
              /\ anl[p].contractText = ""
              /\ anl[p].analysis = <<>>
              /\ anl[p].timestamp = <<>>

\* the place of an analyze invocation: before the GetCommand, the update to
\* analyzing, the GetObjectCommand, the model call, the result update, or
\* after its return
AnalyzeStage(pc) ==
  CASE pc = "idle" -> 0
    [] pc = "setStatus" -> 1
    [] pc = "getObject" -> 2
    [] pc = "model" -> 3
    [] pc = "store" -> 4
    [] pc = "done" -> 5

\* the place of an upload invocation: before the PutObjectCommand, the
\* PutCommand, the DeleteObjectCommand, or after its return
UploadStage(pc) ==
  CASE pc = "idle" -> 0
    [] pc = "putObject" -> 1
    [] pc = "putItem" -> 2
    [] pc = "cleanup" -> 3
    [] pc = "done" -> 4

Uploaded(item) ==
  [contract_id |-> item.contract_id, filename |-> item.filename,
   content_type |-> item.content_type, file_size |-> item.file_size,
   s3_key |-> item.s3_key, created_at |-> item.created_at]

\* C28: no step removes an item or changes its contract_id, filename,
\* content_type, file_size, s3_key or created_at; the key of an item is its
\* contract_id and created_at is set
UploadedFieldsNeverChange ==
  /\ [] (\A id \in DOMAIN table :
            table[id].contract_id = id /\ table[id].created_at # <<>>)
  /\ [][ \A id \in DOMAIN table :
            /\ id \in DOMAIN table'
            /\ Uploaded(table'[id]) = Uploaded(table[id]) ]_vars

\* C28 witness: an item has been analyzed after the clock moved on: it is
\* completed, updated later than created, and another item was put beside it
AnalyzedLaterThanCreated ==
  \E id \in DOMAIN table :
     /\ table[id].status = "completed"
     /\ table[id].analyzed_at = <<1>> /\ table[id].updated_at = <<1>>
     /\ table[id].created_at = <<0>>
     /\ \E other \in DOMAIN table : other # id

\* the step is the successful PutObjectCommand of the upload in progress
PutsObject ==
  /\ upl.pc = "putObject"
  /\ upl'.pc = "putItem"

\* C29: two items never have the same s3_key, the key of an item names the
\* item's contract_id, and the PutObjectCommand of an upload writes a key that
\* no item has and that holds no object yet
StorageKeysUnique ==
  /\ [] (\A id \in DOMAIN table :
            /\ table[id].s3_key.id = id
            /\ \A other \in DOMAIN table :
                  other # id => table[other].s3_key # table[id].s3_key)
  /\ [][ PutsObject =>
            /\ \A id \in DOMAIN table : table[id].s3_key # upl.s3Key
            /\ upl.s3Key \notin DOMAIN bucket
            /\ bucket' = PutObject(bucket, upl.s3Key, fileBuffer) ]_vars

\* C29 witness: two items of files with the same extension have different
\* keys, and each key holds an object
SameExtensionTwoKeys ==
  \E id \in DOMAIN table : \E other \in DOMAIN table :
     /\ id # other
     /\ table[id].s3_key.ext = table[other].s3_key.ext
     /\ table[id].s3_key # table[other].s3_key
     /\ {table[id].s3_key, table[other].s3_key} \subseteq DOMAIN bucket

\* the function fn has been applied to its argument
Applied(fn) == calc.fn = fn /\ calc.applied

\* C22: the PDF extraction always returns a text: the text of the
\* text-operator scan when that has 100 characters or more; with fewer than
\* 50 characters there, the text of the printable-run scan when that has 100
\* characters or more; and in every other case, where the text held has
\* fewer than 100 characters, the sample agreement
PdfExtractionThreeTiers ==
  Applied("extractPdfText") =>
     LET t == calc.pdf.textMatches
         r == calc.pdf.readableText
         text == calc.extractedText[1]
     IN /\ Len(calc.extractedText) = 1
        /\ text.len >= ExtractedMin
        /\ t >= ExtractedMin => text = Text("textMatches", t)
        /\ (t < TextOperatorMin /\ r >= ExtractedMin) => text = Text("readableText", r)
        /\ (t < TextOperatorMin /\ r < ExtractedMin) => text = SampleAgreement
        /\ (t >= TextOperatorMin /\ t < ExtractedMin) => text = SampleAgreement

\* C22 witness: a PDF in which neither scan finds a character has given the
\* sample agreement
NoTextGivesSampleAgreement ==
  /\ Applied("extractPdfText")
  /\ calc.pdf = [textMatches |-> 0, readableText |-> 0]
  /\ calc.extractedText = << SampleAgreement >>

\* the number of opening braces less that of closing braces in text[from..to]
RECURSIVE Depth(_, _, _)
Depth(text, from, to) ==
  IF to < from THEN 0
  ELSE Depth(text, from, to - 1)
         + (IF text[to] = "{" THEN 1 ELSE IF text[to] = "}" THEN -1 ELSE 0)

\* the first balanced object of a text: from its first opening brace to the
\* closing brace that matches it; <<>> when there is none
firstBalanced(text) ==
  LET opens == { i \in 1..Len(text) : text[i] = "{" }
  IN IF opens = {} THEN <<>>
     ELSE LET first == CHOOSE i \in opens : \A j \in opens : i <= j
              ends == { i \in first..Len(text) : Depth(text, first, i) = 0 }
          IN IF ends = {} THEN <<>>
             ELSE LET matching == CHOOSE i \in ends : \A j \in ends : i <= j
                  IN << SubSeq(text, first, matching) >>

\* C23: the analysis of a model text is the decoded first balanced object of
\* the text, whatever follows that object (the fallback when the text has no
\* such object or the object does not decode)
FirstBalancedObjectDecoded ==
  (Applied("analyzeContractWithAI") /\ calc.outcome.kind = "text") =>
     LET object == firstBalanced(calc.outcome.text)
     IN calc.analysis =
          IF object = <<>> THEN << getFallbackAnalysis >>
          ELSE IF JSONparse(object[1]) = <<>> THEN << getFallbackAnalysis >>
          ELSE JSONparse(object[1])

\* the model step fails on the outcome: the invocation throws, the text has
\* no JSON object, or the JSON does not decode
ModelStepFails(outcome) ==
  \/ outcome.kind = "throws"
  \/ jsonMatch(outcome.text) = <<>>
  \/ JSONparse(jsonMatch(outcome.text)[1]) = <<>>

\* C24: whenever the model step fails the analysis is the fallback analysis,
\* one value, which has every member, risk_score 5 and one risk of severity 3
\* and is schema-valid
FailureGivesFixedFallback ==
  (Applied("analyzeContractWithAI") /\ ModelStepFails(calc.outcome)) =>
     /\ calc.analysis = << getFallbackAnalysis >>
     /\ SchemaValid(calc.analysis[1])
     /\ calc.analysis[1].present = Members
     /\ calc.analysis[1].risk_score = 5
     /\ calc.analysis[1].severities = <<3>>

\* C24 witness: a model text whose JSON does not decode has given the
\* fallback analysis
UndecodableGivesFallback ==
  /\ Applied("analyzeContractWithAI")
  /\ calc.outcome.kind = "text"
  /\ jsonMatch(calc.outcome.text) # <<>>
  /\ JSONparse(jsonMatch(calc.outcome.text)[1]) = <<>>
  /\ calc.analysis = << getFallbackAnalysis >>

\* C30: the contract text of the prompt begins where the extracted text
\* begins; it is the whole text when that has at most 4000 characters and
\* its first 4000 characters otherwise
PromptHasFirst4000Chars ==
  Applied("prompt") =>
     LET embedded == calc.prompt[1].contractText
     IN /\ embedded.of = calc.contractText.of
        /\ embedded.from = calc.contractText.from
        /\ embedded.len = (IF calc.contractText.len > PromptChars
                           THEN PromptChars ELSE calc.contractText.len)
        /\ calc.contractText.len <= PromptChars => embedded = calc.contractText

\* C30 witness: a text of 4001 characters has been cut to 4000
TextCutTo4000 ==
  /\ Applied("prompt")
  /\ calc.contractText.len = PromptChars + 1
  /\ calc.prompt[1].contractText.len = PromptChars
  /\ calc.prompt[1].contractText.from = 0

\* C31: the steps of an analyze invocation come in one order: the item is
\* loaded, the update to analyzing is issued, the object is fetched and its
\* text extracted, the model step runs, and then the result update is issued.
\* A step either returns or goes to the very next place; the item is loaded
\* in the first step, the text held from the third, the analysis from the
\* fourth; and a step of the invocation writes status analyzing only in the
\* second place and status completed only in the fifth.
StepsInFixedOrder ==
  [][ \A p \in Analyzers :
        anl'[p] # anl[p] =>
          /\ \/ anl'[p].pc = "done"
             \/ AnalyzeStage(anl'[p].pc) = AnalyzeStage(anl[p].pc) + 1
          /\ anl'[p].contract # anl[p].contract => anl[p].pc = "idle"
          /\ anl'[p].contractText # anl[p].contractText => anl[p].pc = "getObject"
          /\ anl'[p].analysis # anl[p].analysis => anl[p].pc = "model"
          /\ table' # table =>
                LET id == anl[p].contract_id
                IN /\ anl[p].pc \in {"setStatus", "store"}
                   /\ table'[id].status =
                        (IF anl[p].pc = "setStatus" THEN "analyzing" ELSE "completed")
                   /\ anl[p].pc = "store" =>
                        /\ anl[p].contract # <<>>
                        /\ anl[p].analysis # <<>> ]_vars

\* C31 witness: an invocation none of whose operations failed has returned
\* 200 after its result update, when it was the only one under way
AllStepsTaken ==
  \E p \in Analyzers :
     /\ anl[p].pc = "done"
     /\ anl[p].resp.statusCode = 200
     /\ anl[p].failed = {}
     /\ ~anl[p].parallel
     /\ anl[p].timestamp # <<>>
     /\ table[anl[p].contract_id].status = "completed"

\* the count that a summary gives for a status
SummaryFor(summary, status) ==
  CASE status = "completed" -> summary.completed
    [] status = "analyzing" -> summary.analyzing
    [] status = "uploaded" -> summary.uploaded

\* C32: every item that a listing with the status filter s returns has the
\* status s, in the response and in the table, and its summary counts items
\* of status s only: the count for s is the total and the two other counts
\* are 0.  A listing without a filter returns every item the Scan read,
\* whatever its status: as many as the table has, up to the Limit.
StatusFilterApplied ==
  [][ ListAnswers =>
        LET s == qry'.statusFilter
            page == qry'.contracts
        IN IF s # Missing
           THEN /\ \A i \in 1..Len(page) :
                      /\ page[i].status = s
                      /\ table[page[i].contract_id].status = s
                /\ qry'.summary.total = Len(page)
                /\ \A status \in {"completed", "analyzing", "uploaded"} :
                      SummaryFor(qry'.summary, status) =
                         (IF status = s THEN Len(page) ELSE 0)
           ELSE /\ Len(page) = Min(qry'.Limit, Cardinality(DOMAIN table))
                /\ \A status \in {"completed", "analyzing", "uploaded"} :
                      SummaryFor(qry'.summary, status) = CountStatus(page, status) ]_vars

\* C32 witness: a listing with the filter completed has returned the one
\* completed item of a table that also has an item of another status
FilteredListing ==
  /\ qry.op = "list" /\ qry.statusCode = 200
  /\ qry.statusFilter = "completed"
  /\ Len(qry.contracts) = 1
  /\ Cardinality(DOMAIN table) = 2
  /\ \E id \in DOMAIN table : table[id].status # "completed"

\* C33: the limit that a listing reports in pagination.limit is the Limit it
\* gave the Scan
ReportedLimitIsApplied ==
  [][ ListAnswers => qry'.pagination.limit = qry'.Limit ]_vars

\* C34: every item of the table has an object in the bucket under its s3_key,
\* and a step that removes an object removes one that no item has as s3_key
RecordHasBlob ==
  /\ [](\A id \in DOMAIN table : table[id].s3_key \in DOMAIN bucket)
  /\ [][ \A key \in DOMAIN bucket \ DOMAIN bucket' :
           \A id \in DOMAIN table : table[id].s3_key # key ]_vars

\* C34 witness: the table has an item with its object, after an upload whose
\* PutCommand failed has deleted the object it had written
BlobDeletedBesideRecord ==
  /\ upl.pc = "done"
  /\ upl.failed = {"putItem"}
  /\ upl.s3Key \notin DOMAIN bucket
  /\ \E id \in DOMAIN table : table[id].s3_key \in DOMAIN bucket

\* C35: an item has analyzed_at exactly when it has an analysis, and a step
\* that changes one of the two is a result update, which sets both and the
\* status completed
AnalyzedAtIffAnalysis ==
  /\ [](\A id \in DOMAIN table :
          table[id].analyzed_at # <<>> <=> table[id].analysis # <<>>)
  /\ [][ \A id \in DOMAIN table' :
           LET old == ItemOrBlank(table, id)
               new == table'[id]
           IN (new.analyzed_at # old.analyzed_at \/ new.analysis # old.analysis)
                 => /\ \E p \in Analyzers : Stores(p) /\ anl[p].contract_id = id
                    /\ new.analyzed_at # <<>>
                    /\ new.analysis # <<>>
                    /\ new.status = "completed"
                    /\ new.updated_at = new.analyzed_at ]_vars

\* C35 witness: an item analysed before is being analysed again: it has its
\* analysis and analyzed_at, and a later update has set it to analyzing
ResultKeptWhole ==
  \E id \in DOMAIN table :
     /\ table[id].analysis # <<>>
     /\ table[id].analyzed_at # <<>>
     /\ table[id].status = "analyzing"
     /\ table[id].updated_at[1] > table[id].analyzed_at[1]

\* C36: a step of the results handler, whether it answers 200, 202, 404 or
\* 500, changes no item and no object, and nothing of the upload and analyze
\* invocations
QueriesReadOnly ==
  [][ qry' # qry =>
        /\ qry'.op \in {"get", "list"}
        /\ qry'.statusCode \in {200, 202, 404, 500}
        /\ table' = table
        /\ bucket' = bucket
        /\ upl' = upl /\ anl' = anl /\ uuids' = uuids ]_vars

\* C36 witness: a lookup has answered 202 for an item that is still as the
\* upload wrote it, beside an analyze invocation under way for another id
PendingLookupLeftItem ==
  /\ qry.op = "get" /\ qry.statusCode = 202
  /\ qry.contract_id \in DOMAIN table
  /\ table[qry.contract_id].status = "uploaded"
  /\ table[qry.contract_id].updated_at[1] = table[qry.contract_id].created_at[1]
  /\ \E p \in ResultsAnalyzers :
        anl[p].pc = "store" /\ anl[p].contract_id # qry.contract_id

\* C37: the result update of an analyze invocation either succeeds, and then
\* the response is 200 with status completed and the analysis that this step
\* has written into the item, or fails, and then the response is an error
\* without an analysis and the item is as it was
ResponseHasWrittenAnalysis ==
  [][ \A p \in Analyzers :
        (anl[p].pc = "store" /\ anl'[p].pc = "done") =>
           LET id == anl[p].contract_id
               resp == anl'[p].resp
           IN IF resp.statusCode = 200
              THEN /\ resp.analysis # <<>>
                   /\ resp.analysis = anl[p].analysis
                   /\ table'[id].analysis = resp.analysis
                   /\ table'[id].status = "completed"
                   /\ resp.status = "completed"
                   /\ resp.contract_id = id
              ELSE /\ resp = errorResponse(500)
                   /\ resp.analysis = <<>>
                   /\ "store" \in anl'[p].failed
                   /\ table' = table ]_vars

\* C37 witness: of two invocations for one id with different analyses, one
\* has returned 200 with the analysis that the item holds and the other has
\* returned an error after its result update failed
WrittenAndFailedReturns ==
  \E p \in Analyzers : \E q \in Analyzers \ {p} :
     /\ anl[p].pc = "done" /\ anl[q].pc = "done"
     /\ anl[p].contract_id = anl[q].contract_id
     /\ anl[p].resp.statusCode = 200
     /\ table[anl[p].contract_id].analysis = anl[p].resp.analysis
     /\ "store" \in anl[q].failed
     /\ anl[q].resp.analysis = <<>>
     /\ anl[q].analysis # anl[p].analysis

\* C38: in the response of a listing the summary agrees with the contracts
\* returned: total is their number and the sum of the three counts, and each
\* count is the number of returned contracts with that status
SummaryMatchesPage ==
  [][ ListAnswers =>
        LET page == qry'.contracts
            summary == qry'.summary
        IN /\ summary.total = Len(page)
           /\ summary.total = summary.completed + summary.analyzing + summary.uploaded
           /\ \A status \in {"completed", "analyzing", "uploaded"} :
                 SummaryFor(summary, status) =
                    Cardinality({ i \in 1..Len(page) : page[i].status = status }) ]_vars

\* C38 witness: a listing has returned a completed and an uploaded contract
\* and counted one of each
MixedPageCounted ==
  /\ qry.op = "list" /\ qry.statusCode = 200
  /\ Len(qry.contracts) = 2
  /\ qry.summary = [total |-> 2, completed |-> 1, analyzing |-> 0, uploaded |-> 1]

\* uploadAndAnalyze has been called and has not finished
Running == home.state.pc \notin {"idle", "done"}

\* C39: no render of the page shows isUploading and isAnalyzing both true;
\* the analyze request is sent only in a call whose upload request returned
\* success; while uploadAndAnalyze runs one of the flags is true, so that its
\* button is disabled; and the step in which it finishes leaves both flags
\* false and either a result or an error message
FlagsExclusiveAndCleared ==
  /\ [](\A r \in home.seen : ~ (r.isUploading /\ r.isAnalyzing))
  /\ [](home.state.analyzeSent => home.state.uploadOk)
  /\ [](Running => (home.state.isUploading # home.state.isAnalyzing))
  /\ [](~ Running => (~ home.state.isUploading /\ ~ home.state.isAnalyzing))
  /\ [][ (home.state.pc # "analyze" /\ home'.state.pc = "analyze")
            => home.state.pc = "uploadJson" /\ home.state.uploadOk ]_vars
  /\ [][ (Running /\ home'.state.pc = "done")
            => /\ ~ home'.state.isUploading /\ ~ home'.state.isAnalyzing
               /\ (home'.state.result # <<>>) # (home'.state.error # <<>>) ]_vars

\* C39 witness: a call has finished with the error of a failed analyze
\* request, after renders that showed first isUploading and then isAnalyzing
AnalyzeRequestFailed ==
  /\ home.state.pc = "done"
  /\ home.state.analyzeSent /\ ~ home.state.analyzeOk
  /\ home.state.error = << "Analysis failed" >>
  /\ ~ home.state.isUploading /\ ~ home.state.isAnalyzing
  /\ \E r \in home.seen : r.isUploading
  /\ \E r \in home.seen : r.isAnalyzing

\* C40: no render of the page shows a result together with an error message,
\* and a result is set only by the last step of a call whose upload request
\* and analyze request both returned success
ResultOnlyOnSuccessNeverWithError ==
  /\ [](\A r \in home.seen : ~ (r.result /\ r.error))
  /\ [](home.state.result # <<>> =>
          /\ home.state.uploadOk /\ home.state.analyzeOk
          /\ home.state.error = <<>>)
  /\ [][ (home'.state.result # <<>> /\ home'.state.result # home.state.result)
            => /\ home.state.pc = "analyzeJson"
               /\ home.state.uploadOk /\ home.state.analyzeOk ]_vars

\* C40 witness: after a first call that ended with an error message, a
\* second call has set a result
ResultAfterError ==
  /\ home.state.runs = 2
  /\ home.state.result # <<>>
  /\ \E r \in home.seen : r.error

====
